---- MODULE Spec2Model ----
(***************************************************************************)
(* Model of cf_ai_site_speed_doctor: the Router (src/worker.js), the Site  *)
(* Actor (src/durable.js), the key derivation (src/utils.js), the Insight  *)
(* Generator (src/agent.js) and the Analyzer (src/analyzer.js).            *)
(*                                                                         *)
(* Strings the code takes apart (URLs, paths, site ids) are sequences of   *)
(* one-character strings; fixed literals the code only compares or emits   *)
(* (methods, error texts) are TLA+ strings.                                *)
(***************************************************************************)
EXTENDS Naturals, Sequences, FiniteSets

VARIABLES reqs, storage, agentCalls, analyzerCalls, keyCalls, collabCalls,
          sanitizeCalls, ui

vars == <<reqs, storage, agentCalls, analyzerCalls, keyCalls, collabCalls, sanitizeCalls, ui>>

(***************************************************************************)
(* Bounds of the model.                                                    *)
(***************************************************************************)
MaxRequests == 2
MaxAgentCalls == 2
MaxAnalyzerCalls == 2
MaxKeyCalls == 2
MaxCollabCalls == 3
MaxSanitizeCalls == 2
MaxUiTasks == 3

(***************************************************************************)
(* Character strings.                                                      *)
(***************************************************************************)
UpperChars == <<"A","B","C","D","E","F","G","H","I","J","K","L","M",
                "N","O","P","Q","R","S","T","U","V","W","X","Y","Z">>
LowerChars == <<"a","b","c","d","e","f","g","h","i","j","k","l","m",
                "n","o","p","q","r","s","t","u","v","w","x","y","z">>
DigitChars == <<"0","1","2","3","4","5","6","7","8","9">>

Range(s) == { s[i] : i \in 1..Len(s) }

IsAlpha(c) == c \in Range(UpperChars) \cup Range(LowerChars)
IsDigit(c) == c \in Range(DigitChars)

\* String.prototype.toLowerCase on one ASCII character
ToLowerChar(c) ==
    IF c \in Range(UpperChars)
    THEN LowerChars[CHOOSE i \in 1..Len(UpperChars) : UpperChars[i] = c]
    ELSE c

ToLower(s) == [ i \in 1..Len(s) |-> ToLowerChar(s[i]) ]

\* s.slice(n): the string from 0-based position n on
Drop(s, n) == IF n >= Len(s) THEN <<>> ELSE SubSeq(s, n + 1, Len(s))
\* s.slice(0, n)
Take(s, n) == IF n >= Len(s) THEN s ELSE SubSeq(s, 1, n)

\* s.startsWith(p)
StartsWith(s, p) == Len(s) >= Len(p) /\ SubSeq(s, 1, Len(p)) = p

\* 1-based position of the first character of s that lies in cs, 0 if none
FirstOf(s, cs) ==
    IF \E i \in 1..Len(s) : s[i] \in cs
    THEN CHOOSE i \in 1..Len(s) : s[i] \in cs /\ \A j \in 1..(i - 1) : s[j] \notin cs
    ELSE 0

\* 1-based position of the last character of s that lies in cs, 0 if none
LastOf(s, cs) ==
    IF \E i \in 1..Len(s) : s[i] \in cs
    THEN CHOOSE i \in 1..Len(s) : s[i] \in cs /\ \A j \in (i + 1)..Len(s) : s[j] \notin cs
    ELSE 0

\* 1-based position of the first occurrence of p in s, 0 if none (s.indexOf(p) + 1)
IndexOf(s, p) ==
    LET hits == { i \in 1..(Len(s) + 1) :
                    i + Len(p) - 1 <= Len(s) /\ SubSeq(s, i, i + Len(p) - 1) = p }
    IN IF hits = {} THEN 0 ELSE CHOOSE i \in hits : \A j \in hits : i <= j

\* number of leading characters of s that lie in cs
LeadingRun(s, cs) ==
    IF \A i \in 1..Len(s) : s[i] \in cs
    THEN Len(s)
    ELSE (CHOOSE i \in 1..Len(s) : s[i] \notin cs /\ \A j \in 1..(i - 1) : s[j] \in cs) - 1

(***************************************************************************)
(* new URL(url) with no base: the fields of the parsed URL that            *)
(* normalizeUrl reads (hostname, pathname), or a failure (the constructor  *)
(* throws TypeError).  Covered: scheme detection, special schemes with     *)
(* their authority (slashes skipped, userinfo and port cut off, host       *)
(* lowercased, empty path made "/"), non-special schemes with an           *)
(* authority, a path or an opaque path, and query/fragment removal.  Dot   *)
(* segments, percent-encoding and IPv6 literals are outside the inputs the *)
(* model draws.                                                            *)
(***************************************************************************)
SpecialSchemes == { <<"h","t","t","p">>, <<"h","t","t","p","s">>,
                    <<"w","s">>, <<"w","s","s">>, <<"f","t","p">> }

SchemeChars(c) == IsAlpha(c) \/ IsDigit(c) \/ c \in {"+", "-", "."}

URLFailure == [ok |-> FALSE, hostname |-> <<>>, pathname |-> <<>>]

\* host[:port] with any userinfo in front, as it stands in the authority
HostOfAuthority(auth) ==
    LET at       == LastOf(auth, {"@"})
        hostport == Drop(auth, at)
        colon    == FirstOf(hostport, {":"})
        host     == IF colon = 0 THEN hostport ELSE Take(hostport, colon - 1)
        port     == IF colon = 0 THEN <<>> ELSE Drop(hostport, colon)
    IN [host |-> host, portOk |-> \A i \in 1..Len(port) : IsDigit(port[i])]

ParseURL(url) ==
    LET colon == FirstOf(url, {":"})
    IN IF colon <= 1 \/ ~IsAlpha(url[1])
          \/ \E i \in 2..(colon - 1) : ~SchemeChars(url[i])
       THEN URLFailure
       ELSE
         LET scheme == ToLower(Take(url, colon - 1))
             rest0  == Drop(url, colon)
             cut    == FirstOf(rest0, {"?", "#"})
             rest   == IF cut = 0 THEN rest0 ELSE Take(rest0, cut - 1)
         IN IF scheme \in SpecialSchemes
            THEN LET r     == Drop(rest, LeadingRun(rest, {"/", "\\"}))
                     slash == FirstOf(r, {"/", "\\"})
                     auth  == IF slash = 0 THEN r ELSE Take(r, slash - 1)
                     path  == IF slash = 0 THEN <<"/">> ELSE Drop(r, slash - 1)
                     hp    == HostOfAuthority(auth)
                 IN IF hp.host = <<>> \/ ~hp.portOk
                    THEN URLFailure
                    ELSE [ok |-> TRUE, hostname |-> ToLower(hp.host), pathname |-> path]
            ELSE IF StartsWith(rest, <<"/", "/">>)
                 THEN LET r     == Drop(rest, 2)
                          slash == FirstOf(r, {"/"})
                          auth  == IF slash = 0 THEN r ELSE Take(r, slash - 1)
                          path  == IF slash = 0 THEN <<>> ELSE Drop(r, slash - 1)
                          hp    == HostOfAuthority(auth)
                      IN IF ~hp.portOk
                         THEN URLFailure
                         ELSE [ok |-> TRUE, hostname |-> hp.host, pathname |-> path]
                 ELSE [ok |-> TRUE, hostname |-> <<>>, pathname |-> rest]

(***************************************************************************)
(* src/utils.js                                                            *)
(***************************************************************************)
\* normalized.replace(/^www\./, '')
StripLeadingWww(s) ==
    IF StartsWith(s, <<"w","w","w",".">>) THEN Drop(s, 4) ELSE s

\* normalized.replace(/\/$/, '')
StripTrailingSlash(s) ==
    IF Len(s) > 0 /\ s[Len(s)] = "/" THEN Take(s, Len(s) - 1) ELSE s

\* the try block: new URL(url) throws, or the normalized string is returned
normalizeUrl_try(url) ==
    LET urlObj == ParseURL(url)
    IN IF urlObj.ok
       THEN [threw |-> FALSE,
             value |-> StripTrailingSlash(StripLeadingWww(urlObj.hostname \o urlObj.pathname))]
       ELSE [threw |-> TRUE, value |-> <<>>]

normalizeUrl_Uncaught(url) == normalizeUrl_try(url)

\* catch (error) { return url }
normalizeUrl_catch(url) ==
    LET attempt == normalizeUrl_try(url)
    IN IF attempt.threw THEN [threw |-> FALSE, value |-> url] ELSE attempt

normalizeUrl(url) == normalizeUrl_catch(url).value

generateSiteId(url) == normalizeUrl(url)

SanitizeLimit == 1000

\* the characters String.prototype.trim removes, as far as the inputs use them
WhitespaceChars == { " ", "\t", "\n" }

\* 1-based position of the last character of s that is not whitespace, 0 if none
LastNonWhitespace(s) ==
    IF \A i \in 1..Len(s) : s[i] \in WhitespaceChars
    THEN 0
    ELSE CHOOSE i \in 1..Len(s) :
           s[i] \notin WhitespaceChars /\ \A j \in (i + 1)..Len(s) : s[j] \in WhitespaceChars

\* input.trim()
Trim(s) ==
    LET front == Drop(s, LeadingRun(s, WhitespaceChars))
    IN Take(front, LastNonWhitespace(front))

\* input.trim().slice(0, 1000)
sanitizeInput(input) == Take(Trim(input), SanitizeLimit)

(***************************************************************************)
(* Inputs: the URLs, site ids, paths and bodies the requests are drawn     *)
(* from.                                                                   *)
(***************************************************************************)
S_exio == <<"e","x",".","i","o">>
\* "https://www.Ex.io/P/"
UrlWwwUpper == <<"h","t","t","p","s",":","/","/","w","w","w",".","E","x",".","i","o","/","P","/">>
\* "http://ex.io/P"
UrlPlain == <<"h","t","t","p",":","/","/">> \o S_exio \o <<"/","P">>
\* "https://ex.io"
UrlRoot == <<"h","t","t","p","s",":","/","/">> \o S_exio
\* "ex.io/P": no scheme, new URL throws
UrlBare == S_exio \o <<"/","P">>

SiteUrls == { UrlWwwUpper, UrlPlain, UrlRoot, UrlBare }

\* "ex.io/P" and "ex.io"
KeyPage == S_exio \o <<"/","P">>
KeyRoot == S_exio

\* "ex.io/api/history/x", the key of "http://ex.io/api/history/x"
KeyNested == S_exio \o <<"/","a","p","i","/","h","i","s","t","o","r","y","/","x">>

\* "hi"
MsgHi == <<"h","i">>

PathApi        == <<"/","a","p","i","/">>
PathAnalyze    == PathApi \o <<"a","n","a","l","y","z","e">>
PathChat       == PathApi \o <<"c","h","a","t">>
PathHistoryPre == PathApi \o <<"h","i","s","t","o","r","y","/">>
PathOther      == PathApi \o <<"x">>
PathRoot       == <<"/">>
\* "/api": not under the prefix "/api/"
PathApiBare    == <<"/","a","p","i">>

(***************************************************************************)
(* A request body: what request.json() will find.  kind "none" is an       *)
(* absent body, "malformed" text that is not JSON, "null" the JSON null,   *)
(* "scalar" a JSON number, string or boolean, "object" a JSON object with  *)
(* the fields in has.                                                      *)
(***************************************************************************)
Body(kind, has, siteUrl, siteId, message) ==
    [kind |-> kind, has |-> has, siteUrl |-> siteUrl, siteId |-> siteId,
     message |-> message]

NoBody        == Body("none", {}, <<>>, <<>>, <<>>)
MalformedBody == Body("malformed", {}, <<>>, <<>>, <<>>)
NullBody      == Body("null", {}, <<>>, <<>>, <<>>)
ScalarBody    == Body("scalar", {}, <<>>, <<>>, <<>>)
EmptyObject   == Body("object", {}, <<>>, <<>>, <<>>)
AnalyzeObject(u)  == Body("object", {"siteUrl"}, u, <<>>, <<>>)
ChatObject(id, m) == Body("object", {"siteId", "message"}, <<>>, id, m)

AnalyzeBodies ==
    { MalformedBody, NullBody, ScalarBody, EmptyObject, AnalyzeObject(<<>>) }
    \cup { AnalyzeObject(u) : u \in SiteUrls }

ChatBodies ==
    { MalformedBody, NullBody, EmptyObject,
      Body("object", {"siteId"}, <<>>, KeyPage, <<>>),
      ChatObject(KeyPage, <<>>), ChatObject(<<>>, MsgHi), ChatObject(KeyPage, MsgHi) }

Input(method, path, body) == [method |-> method, path |-> path, body |-> body]

\* what reaches the Worker's fetch handler
RouterInputs ==
    { Input("POST", PathAnalyze, b) : b \in AnalyzeBodies }
    \cup { Input("POST", PathChat, b) : b \in ChatBodies }
    \cup { Input("GET", PathHistoryPre \o k, NoBody) : k \in { KeyPage, KeyRoot, KeyNested, <<>> } }
    \cup { Input("GET", PathAnalyze, NoBody), Input("POST", PathHistoryPre \o KeyPage, NoBody),
           Input("GET", PathOther, NoBody), Input("GET", PathRoot, NoBody),
           Input("GET", PathApiBare, NoBody) }

(***************************************************************************)
(* Responses.  One record shape for every Response the code builds; the    *)
(* fields a response does not carry hold "" or <<>>.                       *)
(***************************************************************************)
Response(status, ctype, kind, error, siteId, siteUrl, history, text) ==
    [status |-> status, ctype |-> ctype, kind |-> kind, error |-> error,
     siteId |-> siteId, siteUrl |-> siteUrl, history |-> history, text |-> text]

NoResponse == Response(0, "none", "none", "", <<>>, <<>>, <<>>, "")

\* new Response(JSON.stringify({ error: ... }), { status, headers: json })
JsonError(status, message) ==
    Response(status, "json", "error", message, <<>>, <<>>, <<>>, "")

\* new Response('not found', { status: 404 })
NotFound == Response(404, "text", "notfound", "", <<>>, <<>>, <<>>, "not found")

\* messages of the exceptions the platform raises
ErrBadJson     == "Unexpected token in JSON"
ErrNullBody    == "Cannot destructure property of null"
ErrBodyUsed    == "Body has already been used"
ErrUsedRequest == "Cannot reconstruct a Request with a used body"

(***************************************************************************)
(* A request in progress: its input, the position of the async handler     *)
(* that serves it (pc), the Durable Object name the Worker resolved for it *)
(* (resolved, name), whether a Site Actor's fetch ran for it (contacted),  *)
(* the exception raised while the Worker (raised) or the actor (doRaised)  *)
(* handled it, the actor's response and the response the caller got.       *)
(* jsonErr is the outcome of the pending request.json() ("" when it        *)
(* resolves with the parsed body).                                         *)
(* after holds the requests that had completed when this one arrived.      *)
(***************************************************************************)
NewRequest(origin, inp, name, done) ==
    [origin |-> origin, method |-> inp.method, path |-> inp.path, body |-> inp.body,
     bodyUsed |-> FALSE, resolved |-> FALSE, name |-> name, contacted |-> FALSE,
     pc |-> "arrived", jsonErr |-> "", raised |-> "", doRaised |-> "",
     actorResp |-> NoResponse, resp |-> NoResponse, after |-> done]

\* return new Response(...) from the Worker's handler
Respond(r, resp) == [r EXCEPT !.resp = resp, !.pc = "done"]

\* an exception leaves the running function
Throw(r, msg) == [r EXCEPT !.raised = msg, !.pc = "thrown"]

\* the parsed value of request.json(), or the exception it rejects with
ReadJsonError(r) ==
    IF r.bodyUsed THEN ErrBodyUsed
    ELSE IF r.body.kind \in {"none", "malformed"} THEN ErrBadJson
    ELSE ""

\* const { siteUrl } = body / const { siteId, message } = body
DestructureError(body) == IF body.kind = "null" THEN ErrNullBody ELSE ""

\* the value of a destructured field: <<>> stands for undefined and for ''
Field(body, f) ==
    IF body.kind = "object" /\ f \in body.has
    THEN (CASE f = "siteUrl" -> body.siteUrl
            [] f = "siteId"  -> body.siteId
            [] f = "message" -> body.message)
    ELSE <<>>

\* JavaScript truthiness of a string-or-undefined value
Truthy(v) == v # <<>>

\* url.pathname.split('/api/history/')[1]
SplitSecond(path, sep) ==
    LET first == IndexOf(path, sep)
    IN IF first = 0 THEN <<>>
       ELSE LET tail == Drop(path, first + Len(sep) - 1)
                nxt  == IndexOf(tail, sep)
            IN IF nxt = 0 THEN tail ELSE Take(tail, nxt - 1)

\* request.json() is called: the body is consumed, the handler suspends at pc
ReadBody(r, pc) ==
    [r EXCEPT !.jsonErr = ReadJsonError(r), !.bodyUsed = TRUE, !.pc = pc]

(***************************************************************************)
(* src/worker.js: the Router.                                              *)
(***************************************************************************)
ErrActorUnavailable == "Durable Object is unavailable"

\* env.SPEED_DOCTOR.idFromName(siteId); env.SPEED_DOCTOR.get(durableObjectId)
Resolve(r, siteId) == [r EXCEPT !.resolved = TRUE, !.name = siteId]

\* durableObject.fetch(request): a Request whose body was read cannot be sent
StubForward(r) ==
    IF r.bodyUsed THEN Throw(r, ErrUsedRequest) ELSE [r EXCEPT !.pc = "forwarded"]

\* the catch block left out: the exception leaves the handler
Worker_catch_Rethrow(r) == r

\* catch (error) { return new Response(JSON.stringify({ error: error.message }), 500) }
Worker_catch(r) ==
    IF r.pc = "thrown" THEN Respond(r, JsonError(500, r.raised)) ELSE r

\* handleAnalyze with the if (!siteUrl) check left out
Worker_handleAnalyze_try_Unchecked(r) ==
    IF r.jsonErr # "" THEN Throw(r, r.jsonErr)
    ELSE IF DestructureError(r.body) # "" THEN Throw(r, DestructureError(r.body))
    ELSE StubForward(Resolve(r, generateSiteId(Field(r.body, "siteUrl"))))

\* handleAnalyze from the point where request.json() settles
Worker_handleAnalyze_try(r) ==
    IF r.jsonErr # "" THEN Throw(r, r.jsonErr)
    ELSE IF DestructureError(r.body) # "" THEN Throw(r, DestructureError(r.body))
    ELSE LET siteUrl == Field(r.body, "siteUrl")
         IN IF ~Truthy(siteUrl)
            THEN Respond(r, JsonError(400, "site url required"))
            ELSE StubForward(Resolve(r, generateSiteId(siteUrl)))

Worker_handleAnalyze(r) == Worker_catch(Worker_handleAnalyze_try(r))

\* handleChat checking only if (!siteId)
Worker_handleChat_try_SiteIdOnly(r) ==
    IF r.jsonErr # "" THEN Throw(r, r.jsonErr)
    ELSE IF DestructureError(r.body) # "" THEN Throw(r, DestructureError(r.body))
    ELSE LET siteId == Field(r.body, "siteId")
         IN IF ~Truthy(siteId)
            THEN Respond(r, JsonError(400, "site id and message required"))
            ELSE StubForward(Resolve(r, siteId))

\* handleChat from the point where request.json() settles
Worker_handleChat_try(r) ==
    IF r.jsonErr # "" THEN Throw(r, r.jsonErr)
    ELSE IF DestructureError(r.body) # "" THEN Throw(r, DestructureError(r.body))
    ELSE LET siteId  == Field(r.body, "siteId")
             message == Field(r.body, "message")
         IN IF ~Truthy(siteId) \/ ~Truthy(message)
            THEN Respond(r, JsonError(400, "site id and message required"))
            ELSE StubForward(Resolve(r, siteId))

Worker_handleChat(r) == Worker_catch(Worker_handleChat_try(r))

Worker_handleHistory_try_Unchecked(r) ==
    StubForward(Resolve(r, SplitSecond(r.path, PathHistoryPre)))

\* handleHistory up to its await of durableObject.fetch
Worker_handleHistory_try(r) ==
    LET siteId == SplitSecond(r.path, PathHistoryPre)
    IN IF ~Truthy(siteId)
       THEN Respond(r, JsonError(400, "site id required"))
       ELSE StubForward(Resolve(r, siteId))

Worker_handleHistory(r) == Worker_catch(Worker_handleHistory_try(r))

handleApiRequest_AnyMethod(r) ==
    IF r.path = PathAnalyze THEN ReadBody(r, "w_analyze_json")
    ELSE IF r.path = PathChat THEN ReadBody(r, "w_chat_json")
    ELSE IF StartsWith(r.path, PathHistoryPre) THEN Worker_handleHistory(r)
    ELSE Respond(r, NotFound)

handleApiRequest(r) ==
    IF r.path = PathAnalyze /\ r.method = "POST" THEN ReadBody(r, "w_analyze_json")
    ELSE IF r.path = PathChat /\ r.method = "POST" THEN ReadBody(r, "w_chat_json")
    ELSE IF StartsWith(r.path, PathHistoryPre) /\ r.method = "GET"
         THEN Worker_handleHistory(r)
    ELSE Respond(r, NotFound)

\* export default { fetch }
Worker_fetch(r) ==
    IF StartsWith(r.path, PathApi)
    THEN handleApiRequest(r)
    ELSE Respond(r, Response(200, "html", "info", "", <<>>, <<>>, <<>>,
                             "frontend should be served via pages"))

\* the awaited durableObject.fetch rejects: the handler's catch block runs
Worker_forwardRejected(r) == Worker_catch(Throw(r, ErrActorUnavailable))

\* const response = await durableObject.fetch(request); return response
Worker_returnResponse(r) == Respond(r, r.actorResp)

(***************************************************************************)
(* src/durable.js: the Site Actor.                                         *)
(***************************************************************************)
\* what state.storage of a new instance holds
EmptyActorState == [analysisHistory |-> <<>>, chatHistory |-> <<>>]

\* state management helpers: each body is a TODO, nothing is persisted or read
storeAnalysis(st, analysisData) == st
loadAnalysisHistory(st) == <<>>
storeChatMessage(st, role, content) == st
loadChatHistory(st) == <<>>

\* the actor's handler returns: to the awaiting Worker, or to the direct caller
ActorRespond(r, resp) ==
    IF r.origin = "router"
    THEN [r EXCEPT !.actorResp = resp, !.pc = "w_await"]
    ELSE [r EXCEPT !.actorResp = resp, !.resp = resp, !.pc = "done"]

DO_throw(r, msg) == [r EXCEPT !.doRaised = msg, !.pc = "do_thrown"]

DO_catch_Rethrow(r) == r

DO_catch(r) ==
    IF r.pc = "do_thrown" THEN ActorRespond(r, JsonError(500, r.doRaised)) ELSE r

\* handleAnalyze from the point where request.json() settles
DO_handleAnalyze_try(r) ==
    IF r.jsonErr # "" THEN DO_throw(r, r.jsonErr)
    ELSE IF DestructureError(r.body) # "" THEN DO_throw(r, DestructureError(r.body))
    ELSE LET siteUrl == Field(r.body, "siteUrl")
         IN IF ~Truthy(siteUrl)
            THEN ActorRespond(r, JsonError(400, "Site URL required"))
            ELSE ActorRespond(r, Response(200, "json", "analyzing", "",
                                          generateSiteId(siteUrl), siteUrl, <<>>,
                                          "Analysis started, check back in a moment"))

DO_handleAnalyze(r) == DO_catch(DO_handleAnalyze_try(r))

\* handleChat from the point where request.json() settles
DO_handleChat_try(r) ==
    IF r.jsonErr # "" THEN DO_throw(r, r.jsonErr)
    ELSE IF DestructureError(r.body) # "" THEN DO_throw(r, DestructureError(r.body))
    ELSE ActorRespond(r, Response(200, "json", "chat", "", Field(r.body, "siteId"),
                                  <<>>, <<>>, "chat functionality coming soon"))

DO_handleChat(r) == DO_catch(DO_handleChat_try(r))

DO_handleGetHistory_NotFound(r) == ActorRespond(r, JsonError(404, "no history"))

DO_handleGetHistory(r) ==
    DO_catch(ActorRespond(r, Response(200, "json", "history", "", <<>>, <<>>, <<>>,
                                      "no history yet")))

DO_fetch_NoHistoryRoute(r) ==
    IF r.path = PathAnalyze /\ r.method = "POST" THEN ReadBody(r, "do_analyze_json")
    ELSE IF r.path = PathChat /\ r.method = "POST" THEN ReadBody(r, "do_chat_json")
    ELSE ActorRespond(r, NotFound)

\* async fetch(request) of the Durable Object
DO_fetch(r) ==
    IF r.path = PathAnalyze /\ r.method = "POST" THEN ReadBody(r, "do_analyze_json")
    ELSE IF r.path = PathChat /\ r.method = "POST" THEN ReadBody(r, "do_chat_json")
    ELSE IF StartsWith(r.path, PathHistoryPre) /\ r.method = "GET"
         THEN DO_handleGetHistory(r)
    ELSE ActorRespond(r, NotFound)

Construct_Sole(st, name) == [n \in {name} |-> EmptyActorState]

\* constructor(state, env): the instance for a name exists from its first request on
Construct(st, name) ==
    [n \in DOMAIN st \cup {name} |-> IF n \in DOMAIN st THEN st[n] ELSE EmptyActorState]

(***************************************************************************)
(* Requests delivered to a Site Actor through its stub with the body       *)
(* unread: the actor's own interface (the class is the Durable Object      *)
(* binding exported by worker.js).                                         *)
(***************************************************************************)
StubInputs ==
    { [name |-> KeyPage, inp |-> Input("POST", PathAnalyze, b)] :
        b \in { AnalyzeObject(UrlWwwUpper), AnalyzeObject(UrlPlain), EmptyObject,
                MalformedBody } }
    \cup { [name |-> KeyRoot, inp |-> Input("POST", PathAnalyze, AnalyzeObject(UrlRoot))] }
    \cup { [name |-> KeyPage, inp |-> Input("POST", PathChat, b)] :
             b \in { ChatObject(KeyPage, MsgHi), ChatObject(KeyPage, <<>>), NullBody } }
    \cup { [name |-> KeyPage, inp |-> Input("GET", PathHistoryPre \o KeyPage, NoBody)],
           [name |-> KeyPage, inp |-> Input("GET", PathOther, NoBody)] }

(***************************************************************************)
(* src/frontend/script.js: the page's script.  A JavaScript value the      *)
(* script holds is null, undefined or a string.  A task is one run of      *)
(* analyzeSite or sendChatMessage, suspended at an await or done.          *)
(***************************************************************************)
JsNull      == [kind |-> "null", value |-> <<>>]
JsUndefined == [kind |-> "undefined", value |-> <<>>]
JsString(v) == [kind |-> "string", value |-> v]

\* !x is false
JsTruthy(x) == x.kind = "string" /\ x.value # <<>>

\* what the server sends back: the fetch rejects, the body is not JSON, the
\* status is not ok, or the status is ok with these fields
Reply(kind, siteId, history) == [kind |-> kind, siteId |-> siteId, history |-> history]
NoReply == Reply("none", JsUndefined, <<>>)

AnalyzeReplies ==
    { Reply("rejects", JsUndefined, <<>>), Reply("unparsable", JsUndefined, <<>>),
      Reply("error", JsUndefined, <<>>),
      Reply("ok", JsString(KeyPage), <<>>), Reply("ok", JsUndefined, <<>>) }

\* a history item as the server sends it
HistoryEntry(timestamp, url) == [timestamp |-> timestamp, url |-> url]

HistoryReplies ==
    { Reply("rejects", JsUndefined, <<>>), Reply("error", JsUndefined, <<>>),
      Reply("ok", JsUndefined, <<>>),
      Reply("ok", JsUndefined, << HistoryEntry("t1", "ex.io/P") >>),
      Reply("ok", JsUndefined, << HistoryEntry("t1", "ex.io/P"), HistoryEntry("", "") >>) }

ChatReplies == { Reply("error", JsUndefined, <<>>), Reply("ok", JsUndefined, <<>>) }

\* the reply is a parsed JSON body with response.ok
ReplyOk(reply) == reply.kind = "ok"

\* reply is the reply to the task's analyze or chat request, loaded the reply to
\* its history request
UiTask(op, pc, reply, loaded) ==
    [op |-> op, pc |-> pc, reply |-> reply, loaded |-> loaded]

\* a request the page has sent
UiSent(route, siteId) == [route |-> route, siteId |-> siteId]

UiInit ==
    [currentSiteId |-> JsNull, tasks |-> <<>>, sent |-> <<>>, status |-> "",
     chatSection |-> "hidden", chatMessages |-> <<>>, historyContent |-> <<>>]

(***************************************************************************)
(* The state machine of the Router and the Site Actors.                    *)
(***************************************************************************)
Done == { i \in 1..Len(reqs) : reqs[i].pc = "done" }

Init ==
    /\ reqs = <<>>
    /\ storage = << >>
    /\ agentCalls = <<>>
    /\ analyzerCalls = <<>>
    /\ keyCalls = <<>>
    /\ collabCalls = <<>>
    /\ sanitizeCalls = <<>>
    /\ ui = UiInit

\* a request reaches the Worker; its handler runs up to its first await
RouterRequest(inp) ==
    /\ Len(reqs) < MaxRequests
    /\ reqs' = Append(reqs, Worker_fetch(NewRequest("router", inp, <<>>, Done)))
    /\ UNCHANGED <<storage, agentCalls, analyzerCalls, keyCalls, collabCalls, sanitizeCalls, ui>>

\* request.json() settles in the Worker's handleAnalyze
WorkerAnalyzeResume(i) ==
    /\ reqs[i].pc = "w_analyze_json"
    /\ reqs' = [reqs EXCEPT ![i] = Worker_handleAnalyze(reqs[i])]
    /\ UNCHANGED <<storage, agentCalls, analyzerCalls, keyCalls, collabCalls, sanitizeCalls, ui>>

\* request.json() settles in the Worker's handleChat
WorkerChatResume(i) ==
    /\ reqs[i].pc = "w_chat_json"
    /\ reqs' = [reqs EXCEPT ![i] = Worker_handleChat(reqs[i])]
    /\ UNCHANGED <<storage, agentCalls, analyzerCalls, keyCalls, collabCalls, sanitizeCalls, ui>>

\* a caller holding the binding sends a request to the actor named s.name
StubRequest(s) ==
    /\ Len(reqs) < MaxRequests
    /\ reqs' = Append(reqs, StubForward(Resolve(NewRequest("stub", s.inp, <<>>, Done), s.name)))
    /\ UNCHANGED <<storage, agentCalls, analyzerCalls, keyCalls, collabCalls, sanitizeCalls, ui>>

\* the actor's fetch runs for a delivered request, up to its first await
ActorFetch(i) ==
    /\ reqs[i].pc = "forwarded"
    /\ reqs' = [reqs EXCEPT ![i] = DO_fetch([reqs[i] EXCEPT !.contacted = TRUE])]
    /\ storage' = Construct(storage, reqs[i].name)
    /\ UNCHANGED <<agentCalls, analyzerCalls, keyCalls, collabCalls, sanitizeCalls, ui>>

\* request.json() settles in the actor's handleAnalyze
ActorAnalyzeResume(i) ==
    /\ reqs[i].pc = "do_analyze_json"
    /\ reqs' = [reqs EXCEPT ![i] = DO_handleAnalyze(reqs[i])]
    /\ UNCHANGED <<storage, agentCalls, analyzerCalls, keyCalls, collabCalls, sanitizeCalls, ui>>

\* request.json() settles in the actor's handleChat
ActorChatResume(i) ==
    /\ reqs[i].pc = "do_chat_json"
    /\ reqs' = [reqs EXCEPT ![i] = DO_handleChat(reqs[i])]
    /\ UNCHANGED <<storage, agentCalls, analyzerCalls, keyCalls, collabCalls, sanitizeCalls, ui>>

\* the forwarded call fails before the actor runs (the platform rejects it)
ForwardRejected(i) ==
    /\ reqs[i].pc = "forwarded"
    /\ reqs[i].origin = "router"
    /\ reqs' = [reqs EXCEPT ![i] = Worker_forwardRejected(reqs[i])]
    /\ UNCHANGED <<storage, agentCalls, analyzerCalls, keyCalls, collabCalls, sanitizeCalls, ui>>

\* the Worker's await of durableObject.fetch resumes with the actor's response
WorkerReturn(i) ==
    /\ reqs[i].pc = "w_await"
    /\ reqs' = [reqs EXCEPT ![i] = Worker_returnResponse(reqs[i])]
    /\ UNCHANGED <<storage, agentCalls, analyzerCalls, keyCalls, collabCalls, sanitizeCalls, ui>>

Next ==
    \/ \E inp \in RouterInputs : RouterRequest(inp)
    \/ \E s \in StubInputs : StubRequest(s)
    \/ \E i \in 1..Len(reqs) : WorkerAnalyzeResume(i)
    \/ \E i \in 1..Len(reqs) : WorkerChatResume(i)
    \/ \E i \in 1..Len(reqs) : ActorFetch(i)
    \/ \E i \in 1..Len(reqs) : ActorAnalyzeResume(i)
    \/ \E i \in 1..Len(reqs) : ActorChatResume(i)
    \/ \E i \in 1..Len(reqs) : ForwardRejected(i)
    \/ \E i \in 1..Len(reqs) : WorkerReturn(i)

Spec == Init /\ [][Next]_vars

(***************************************************************************)
(* src/agent.js: the Insight Generator.  An inference call is the fetch of *)
(* the Workers AI endpoint followed by response.json(); ai describes how   *)
(* the platform answers it.                                                *)
(***************************************************************************)
PromptHistoryLimit == 5

FallbackText == "sorry, ai service is temporarily unavailable"
StringifiedData == "JSON.stringify(data)"

\* the parsed reply: JSON null, or an object with result.response and response
AiData(isNull, resultResponse, response) ==
    [isNull |-> isNull, resultResponse |-> resultResponse, response |-> response]

AiOutcome(net, json, data) == [net |-> net, json |-> json, data |-> data]

AiOutcomes ==
    { AiOutcome("error", "ok", AiData(FALSE, "", "")),
      AiOutcome("ok", "unparsable", AiData(FALSE, "", "")),
      AiOutcome("ok", "ok", AiData(TRUE, "", "")),
      AiOutcome("ok", "ok", AiData(FALSE, "use a cdn", "")),
      AiOutcome("ok", "ok", AiData(FALSE, "", "enable caching")),
      AiOutcome("ok", "ok", AiData(FALSE, "", "")) }

\* the inference call failed: the fetch rejected or the reply is not JSON
InferenceFailed(ai) == ai.net = "error" \/ ai.json = "unparsable"

AgentValue(text) == [threw |-> FALSE, text |-> text]
AgentThrow(msg)  == [threw |-> TRUE, text |-> msg]

parseAIResponse(data) ==
    IF data.isNull THEN AgentThrow("Cannot read properties of null")
    ELSE IF data.resultResponse # "" THEN AgentValue(data.resultResponse)
    ELSE IF data.response # "" THEN AgentValue(data.response)
    ELSE AgentValue(StringifiedData)

callWorkersAI(prompt, ai) ==
    LET attempt == IF ai.net = "error" THEN AgentThrow("fetch failed")
                   ELSE IF ai.json = "unparsable" THEN AgentThrow(ErrBadJson)
                   ELSE parseAIResponse(ai.data)
    IN IF attempt.threw THEN AgentValue(FallbackText) ELSE attempt

FirstTurns(chatHistory, n) ==
    IF Len(chatHistory) <= n THEN chatHistory ELSE SubSeq(chatHistory, 1, n)

\* chatHistory.slice(-5)
LastTurns(chatHistory, n) ==
    IF Len(chatHistory) <= n THEN chatHistory
    ELSE SubSeq(chatHistory, Len(chatHistory) - n + 1, Len(chatHistory))

\* the parts the prompt string is assembled from
buildChatPrompt(message, analysisContext, chatHistory) ==
    [kind |-> "chat",
     context |-> IF analysisContext = "absent" THEN "" ELSE analysisContext,
     turns |-> LastTurns(chatHistory, PromptHistoryLimit),
     question |-> message]

buildAnalysisPrompt(analysisData) ==
    [kind |-> "analysis", context |-> analysisData, turns |-> <<>>, question |-> <<>>]

\* { response: response.text || 'i need more context', suggestions: [] }
handleChatMessage(message, analysisContext, chatHistory, ai) ==
    LET prompt   == buildChatPrompt(message, analysisContext, chatHistory)
        response == callWorkersAI(prompt, ai)
    IN [threw |-> response.threw,
        text |-> IF response.threw THEN response.text
                 ELSE IF response.text # "" THEN response.text ELSE "i need more context",
        prompt |-> prompt,
        \* slice copies: the caller's array is as it was
        chatHistory |-> chatHistory]

\* { summary: insights.summary || 'analysis complete', recommendations: [], ... }
generateAnalysisInsights(analysisData, ai) ==
    LET prompt   == buildAnalysisPrompt(analysisData)
        insights == callWorkersAI(prompt, ai)
    IN [threw |-> insights.threw,
        text |-> IF insights.threw THEN insights.text ELSE "analysis complete",
        prompt |-> prompt,
        chatHistory |-> <<>>]

Turn(role, content) == [role |-> role, content |-> content]

\* a transcript of seven turns, numbered in the order they were stored
SevenTurns ==
    << Turn("user", <<"1">>), Turn("assistant", <<"2">>), Turn("user", <<"3">>),
       Turn("assistant", <<"4">>), Turn("user", <<"5">>), Turn("assistant", <<"6">>),
       Turn("user", <<"7">>) >>

ChatHistories ==
    { <<>>, <<Turn("user", MsgHi), Turn("assistant", <<"o","k">>)>>, SevenTurns }

AnalysisContexts == { "absent", "report" }

AgentCall(op, message, context, history, ai, result) ==
    [op |-> op, message |-> message, context |-> context, history |-> history,
     ai |-> ai, result |-> result]

\* a caller asks the Insight Generator for a chat answer
AgentChat(message, context, history, ai) ==
    /\ Len(agentCalls) < MaxAgentCalls
    /\ agentCalls' = Append(agentCalls,
           AgentCall("chat", message, context, history, ai,
                     handleChatMessage(message, context, history, ai)))
    /\ UNCHANGED <<reqs, storage, analyzerCalls, keyCalls, collabCalls, sanitizeCalls, ui>>

\* a caller asks the Insight Generator for the insights of a report
AgentInsights(ai) ==
    /\ Len(agentCalls) < MaxAgentCalls
    /\ agentCalls' = Append(agentCalls,
           AgentCall("insights", <<>>, "report", <<>>, ai,
                     generateAnalysisInsights("report", ai)))
    /\ UNCHANGED <<reqs, storage, analyzerCalls, keyCalls, collabCalls, sanitizeCalls, ui>>

NextAgent ==
    \/ \E c \in AnalysisContexts, h \in ChatHistories, ai \in AiOutcomes :
         AgentChat(MsgHi, c, h, ai)
    \/ \E ai \in AiOutcomes : AgentInsights(ai)

SpecAgent == Init /\ [][NextAgent]_vars

(***************************************************************************)
(* src/analyzer.js: the Analyzer.  Each of analyzeCaching, analyzeAssets   *)
(* and detectCloudflare makes one fetch of the site; f says how each ends. *)
(***************************************************************************)
\* a fetch of the site: it rejects, or answers with or without CDN headers
FetchOutcomes == { "rejects", "plain", "cloudflare" }

collectMetrics(siteUrl) == [ttfb |-> 0, domLoad |-> 0, fullLoad |-> 0]

checkCoreWebVitals(siteUrl) == [status |-> "not measured"]

analyzeCaching(siteUrl, outcome) ==
    IF outcome = "rejects"
    THEN [threw |-> FALSE, error |-> "fetch failed", cacheControl |-> "unknown",
          etag |-> "unknown", cdnCache |-> "unknown"]
    ELSE [threw |-> FALSE, error |-> "",
          cacheControl |-> IF outcome = "cloudflare" THEN "max-age=60" ELSE "not set",
          etag |-> "not set",
          cdnCache |-> IF outcome = "cloudflare" THEN "HIT" ELSE "unknown"]

analyzeAssets(siteUrl, outcome) ==
    IF outcome = "rejects"
    THEN [threw |-> FALSE, error |-> "fetch failed", scripts |-> 0, stylesheets |-> 0,
          images |-> 0]
    ELSE [threw |-> FALSE, error |-> "", scripts |-> 1, stylesheets |-> 1, images |-> 1]

detectCloudflare(siteUrl, outcome) ==
    IF outcome = "rejects"
    THEN [threw |-> FALSE, error |-> "fetch failed", isCloudflare |-> FALSE]
    ELSE [threw |-> FALSE, error |-> "", isCloudflare |-> outcome = "cloudflare"]

\* try { ... return report } catch (error) { throw new Error(`analysis failed: ...`) }
analyzeSite(siteUrl, f) ==
    LET metrics       == collectMetrics(siteUrl)
        coreWebVitals == checkCoreWebVitals(siteUrl)
        caching       == analyzeCaching(siteUrl, f.caching)
        assets        == analyzeAssets(siteUrl, f.assets)
        cloudflare    == detectCloudflare(siteUrl, f.cloudflare)
    IN IF caching.threw \/ assets.threw \/ cloudflare.threw
       THEN [threw |-> TRUE, error |-> "analysis failed: fetch failed", url |-> siteUrl,
             caching |-> caching, assets |-> assets, cloudflare |-> cloudflare,
             metrics |-> metrics, coreWebVitals |-> coreWebVitals]
       ELSE [threw |-> FALSE, error |-> "", url |-> siteUrl,
             caching |-> caching, assets |-> assets, cloudflare |-> cloudflare,
             metrics |-> metrics, coreWebVitals |-> coreWebVitals]

FetchPlans == [caching : FetchOutcomes, assets : FetchOutcomes, cloudflare : FetchOutcomes]

\* a caller asks the Analyzer for the report of a site
AnalyzerRun(siteUrl, f) ==
    /\ Len(analyzerCalls) < MaxAnalyzerCalls
    /\ analyzerCalls' = Append(analyzerCalls,
           [siteUrl |-> siteUrl, f |-> f, result |-> analyzeSite(siteUrl, f)])
    /\ UNCHANGED <<reqs, storage, agentCalls, keyCalls, collabCalls, sanitizeCalls, ui>>

NextAnalyzer ==
    \E u \in { UrlPlain, UrlRoot }, f \in FetchPlans : AnalyzerRun(u, f)

SpecAnalyzer == Init /\ [][NextAnalyzer]_vars

(***************************************************************************)
(* src/utils.js: key derivation on its own.  A caller derives the key of   *)
(* an input and then the key of that key.                                  *)
(***************************************************************************)
S_http  == <<"h","t","t","p",":","/","/">>
S_https == <<"h","t","t","p","s",":","/","/">>
S_www   == <<"w","w","w",".">>

KeyInputs ==
    { UrlPlain,                                          \* "http://ex.io/P"
      S_https \o S_exio \o <<"/","P">>,                  \* "https://ex.io/P"
      S_http \o S_exio \o <<"/","P","/">>,               \* "http://ex.io/P/"
      S_http \o S_exio \o <<"/","P","/","/">>,           \* "http://ex.io/P//"
      S_http \o S_www \o S_exio \o <<"/","P">>,          \* "http://www.ex.io/P"
      S_http \o S_www \o S_www \o S_exio \o <<"/","P">>, \* "http://www.www.ex.io/P"
      UrlWwwUpper,                                       \* "https://www.Ex.io/P/"
      UrlRoot,                                           \* "https://ex.io"
      UrlRoot \o <<"/">>,                                \* "https://ex.io/"
      <<"H","T","T","P",":","/","/","E","X",".","I","O","/","P">>,  \* "HTTP://EX.IO/P"
      UrlBare,                                           \* "ex.io/P"
      <<>>,                                              \* ""
      S_http,                                            \* "http://"
      <<"m","a","i","l","t","o",":">> \o S_http \o S_exio \o <<"/">>,  \* "mailto:http://ex.io/"
      <<"b","l","o","b",":">> \o S_https \o S_exio \o <<"/","P">>,     \* "blob:https://ex.io/P"
      <<"m","a","i","l","t","o",":">> \o S_www \o <<"a","@">> \o S_exio, \* "mailto:www.a@ex.io"
      <<"f","o","o",":","/","/","E","X",".","i","o","/","p">> }         \* "foo://EX.io/p"

\* generateSiteId(input), then generateSiteId of the result
KeyCall(input) ==
    [input |-> input,
     threw |-> normalizeUrl_catch(input).threw,
     key   |-> generateSiteId(input),
     rekey |-> generateSiteId(generateSiteId(input))]

KeyDerive(input) ==
    /\ Len(keyCalls) < MaxKeyCalls
    /\ keyCalls' = Append(keyCalls, KeyCall(input))
    /\ UNCHANGED <<reqs, storage, agentCalls, analyzerCalls, collabCalls, sanitizeCalls, ui>>

NextKey == \E input \in KeyInputs : KeyDerive(input)

SpecKey == Init /\ [][NextKey]_vars

(***************************************************************************)
(* src/frontend/script.js: the functions of the page's script, each up to  *)
(* its next await.  u is the page's state, t the task that runs.           *)
(***************************************************************************)
SetTask(u, t, pc, reply) == [u EXCEPT !.tasks[t] = UiTask(@.op, pc, reply, @.loaded)]

\* an element of the history pane
PaneNotice == [kind |-> "notice", timestamp |-> "", url |-> "No history yet"]
PaneItem(item) ==
    [kind |-> "item",
     timestamp |-> IF item.timestamp # "" THEN item.timestamp ELSE "Unknown time",
     url |-> IF item.url # "" THEN item.url ELSE "Unknown URL"]

\* displayHistory(history): the children of #history-content afterwards
UI_displayHistory(historyContent, history) ==
    IF Len(history) = 0
    THEN Append(historyContent, PaneNotice)
    ELSE historyContent \o [n \in 1..Len(history) |-> PaneItem(history[n])]

\* loadHistory() up to its await of fetch
UI_loadHistory(u, t) ==
    IF ~JsTruthy(u.currentSiteId)
    THEN SetTask(u, t, "done", u.tasks[t].reply)
    ELSE [SetTask(u, t, "await_history", u.tasks[t].reply)
            EXCEPT !.sent = Append(@, UiSent("history", u.currentSiteId))]

\* loadHistory() from the point where fetch and response.json() have settled
UI_loadHistory_resume(u, t, reply) ==
    IF ReplyOk(reply)
    THEN [u EXCEPT !.tasks[t] = UiTask(@.op, "done", @.reply, reply),
                   !.historyContent = UI_displayHistory(@, reply.history)]
    ELSE [u EXCEPT !.tasks[t] = UiTask(@.op, "done", @.reply, reply)]

\* analyzeSite(url) up to its await of fetch
UI_analyzeSite(u, url) ==
    [u EXCEPT !.status = "loading",
              !.tasks = Append(@, UiTask("analyze", "await_fetch", NoReply, NoReply)),
              !.sent = Append(@, UiSent("analyze", JsUndefined))]

\* analyzeSite from the point where fetch and response.json() have settled
UI_analyzeSite_resume(u, t, reply) ==
    IF ReplyOk(reply)
    THEN UI_loadHistory([SetTask(u, t, "await_fetch", reply)
                           EXCEPT !.currentSiteId = reply.siteId,
                                  !.status = "success",
                                  !.chatSection = "block"], t)
    ELSE [SetTask(u, t, "done", reply) EXCEPT !.status = "error"]

\* an element of #chat-messages; task is set on the "Thinking..." element
ChatElement(role, content, task) == [role |-> role, content |-> content, task |-> task]

\* loadingEl.remove()
RemoveLoading(chatMessages, t) ==
    SelectSeq(chatMessages, LAMBDA el : el.task # t)

UI_sendChatMessage_Unguarded(u, message) ==
    LET t == Len(u.tasks) + 1
    IN [u EXCEPT !.tasks = Append(@, UiTask("chat", "await_chat", NoReply, NoReply)),
                 !.chatMessages = @ \o << ChatElement("user", message, 0),
                                          ChatElement("ai", "Thinking...", t) >>,
                 !.sent = Append(@, UiSent("chat", u.currentSiteId))]

\* sendChatMessage(message) up to its await of fetch
UI_sendChatMessage(u, message) ==
    IF ~JsTruthy(u.currentSiteId)
    THEN [u EXCEPT !.tasks = Append(@, UiTask("chat", "alerted", NoReply, NoReply))]
    ELSE LET t == Len(u.tasks) + 1
         IN [u EXCEPT !.tasks = Append(@, UiTask("chat", "await_chat", NoReply, NoReply)),
                      !.chatMessages = @ \o << ChatElement("user", message, 0),
                                               ChatElement("ai", "Thinking...", t) >>,
                      !.sent = Append(@, UiSent("chat", u.currentSiteId))]

\* sendChatMessage from the point where fetch and response.json() have settled
UI_sendChatMessage_resume(u, t, reply) ==
    [SetTask(u, t, "done", reply)
       EXCEPT !.chatMessages =
                Append(RemoveLoading(@, t),
                       ChatElement("ai", IF ReplyOk(reply) THEN "No response"
                                         ELSE "Error: chat failed", 0))]

\* the analyze form is submitted
SubmitAnalyze ==
    /\ Len(ui.tasks) < MaxUiTasks
    /\ ui' = UI_analyzeSite(ui, UrlPlain)
    /\ UNCHANGED <<reqs, storage, agentCalls, analyzerCalls, keyCalls, collabCalls,
                   sanitizeCalls>>

\* the chat form is submitted
SubmitChat ==
    /\ Len(ui.tasks) < MaxUiTasks
    /\ ui' = UI_sendChatMessage(ui, "hi")
    /\ UNCHANGED <<reqs, storage, agentCalls, analyzerCalls, keyCalls, collabCalls,
                   sanitizeCalls>>

\* the server's reply to an analyze request arrives
AnalyzeReplyArrives(t, reply) ==
    /\ t \in 1..Len(ui.tasks)
    /\ ui.tasks[t].pc = "await_fetch"
    /\ ui' = UI_analyzeSite_resume(ui, t, reply)
    /\ UNCHANGED <<reqs, storage, agentCalls, analyzerCalls, keyCalls, collabCalls,
                   sanitizeCalls>>

\* the server's reply to a history request arrives
HistoryReplyArrives(t, reply) ==
    /\ t \in 1..Len(ui.tasks)
    /\ ui.tasks[t].pc = "await_history"
    /\ ui' = UI_loadHistory_resume(ui, t, reply)
    /\ UNCHANGED <<reqs, storage, agentCalls, analyzerCalls, keyCalls, collabCalls,
                   sanitizeCalls>>

\* the server's reply to a chat request arrives
ChatReplyArrives(t, reply) ==
    /\ t \in 1..Len(ui.tasks)
    /\ ui.tasks[t].pc = "await_chat"
    /\ ui' = UI_sendChatMessage_resume(ui, t, reply)
    /\ UNCHANGED <<reqs, storage, agentCalls, analyzerCalls, keyCalls, collabCalls,
                   sanitizeCalls>>

NextUi ==
    \/ SubmitAnalyze
    \/ SubmitChat
    \/ \E t \in 1..MaxUiTasks, reply \in AnalyzeReplies : AnalyzeReplyArrives(t, reply)
    \/ \E t \in 1..MaxUiTasks, reply \in HistoryReplies : HistoryReplyArrives(t, reply)
    \/ \E t \in 1..MaxUiTasks, reply \in ChatReplies : ChatReplyArrives(t, reply)

SpecUi == Init /\ [][NextUi]_vars

(***************************************************************************)
(* src/utils.js: sanitizeInput on its own.  A caller sanitizes an input    *)
(* and then the result.                                                    *)
(***************************************************************************)
\* n copies of the character c
Fill(n, c) == [i \in 1..n |-> c]

SanitizeInputs ==
    { <<>>,                                                  \* ""
      <<" ", " ", " ">>,                                     \* "   "
      MsgHi,                                                 \* "hi"
      <<" ", " ">> \o MsgHi \o <<" ">>,                      \* "  hi "
      <<"\t">> \o MsgHi \o <<"\n">>,                        \* "\thi\n"
      <<"a", " ", "b">>,                                     \* "a b"
      Fill(999, "a"),
      Fill(1000, "a"),
      Fill(1001, "a"),
      <<" ">> \o Fill(1000, "a") \o <<" ">>,
      Fill(998, "a") \o <<" ", "b", "c">>,
      Fill(999, "a") \o <<" ", "b">>,
      Fill(998, "a") \o <<" ", " ", "b">> }

\* sanitizeInput(input), then sanitizeInput of the result
SanitizeCall(input) ==
    [input |-> input,
     result |-> sanitizeInput(input),
     again  |-> sanitizeInput(sanitizeInput(input))]

Sanitize(input) ==
    /\ Len(sanitizeCalls) < MaxSanitizeCalls
    /\ sanitizeCalls' = Append(sanitizeCalls, SanitizeCall(input))
    /\ UNCHANGED <<reqs, storage, agentCalls, analyzerCalls, keyCalls, collabCalls, ui>>

NextSanitize == \E input \in SanitizeInputs : Sanitize(input)

SpecSanitize == Init /\ [][NextSanitize]_vars

(***************************************************************************)
(* src/agent.js, src/analyzer.js: the collaborators' outbound fetches in   *)
(* time.  A call starts by awaiting its fetch; the fetch is fulfilled,     *)
(* rejects, or never settles.  The code passes no signal and sets no timer *)
(* around the await, so only the settling of the fetch resumes the call.   *)
(***************************************************************************)
FetchFates == { "fulfils", "rejects", "hangs" }

CollabCall(who, fate, state, result) ==
    [who |-> who, fate |-> fate, state |-> state, result |-> result]

\* callWorkersAI reaches: const response = await fetch(...)
InferenceStart(fate) ==
    /\ Len(collabCalls) < MaxCollabCalls
    /\ collabCalls' = Append(collabCalls, CollabCall("agent", fate, "awaiting", ""))
    /\ UNCHANGED <<reqs, storage, agentCalls, analyzerCalls, keyCalls, sanitizeCalls, ui>>

\* analyzeCaching reaches: const response = await fetch(siteUrl, ...)
CachingFetchStart(fate) ==
    /\ Len(collabCalls) < MaxCollabCalls
    /\ collabCalls' = Append(collabCalls, CollabCall("analyzer", fate, "awaiting", ""))
    /\ UNCHANGED <<reqs, storage, agentCalls, analyzerCalls, keyCalls, sanitizeCalls, ui>>

\* what the call returns once its fetch has settled
SettledResult(who, fate) ==
    IF who = "agent"
    THEN callWorkersAI(buildAnalysisPrompt("report"),
                       IF fate = "rejects"
                       THEN AiOutcome("error", "ok", AiData(FALSE, "", ""))
                       ELSE AiOutcome("ok", "ok", AiData(FALSE, "use a cdn", ""))).text
    ELSE analyzeCaching(UrlPlain, IF fate = "rejects" THEN "rejects" ELSE "plain").cacheControl

\* the awaited fetch settles and the call runs to its return
FetchSettles(n) ==
    /\ n \in 1..Len(collabCalls)
    /\ collabCalls[n].state = "awaiting"
    /\ collabCalls[n].fate # "hangs"
    /\ collabCalls' = [collabCalls EXCEPT ![n] =
           CollabCall(@.who, @.fate, "returned", SettledResult(@.who, @.fate))]
    /\ UNCHANGED <<reqs, storage, agentCalls, analyzerCalls, keyCalls, sanitizeCalls, ui>>

NextCollab ==
    \/ \E fate \in FetchFates : InferenceStart(fate)
    \/ \E fate \in FetchFates : CachingFetchStart(fate)
    \/ \E n \in 1..MaxCollabCalls : FetchSettles(n)

\* a fetch that can settle does settle
SpecCollab ==
    Init /\ [][NextCollab]_vars /\ \A n \in 1..MaxCollabCalls : WF_vars(FetchSettles(n))

(***************************************************************************)
(* Properties.                                                             *)
(***************************************************************************)
Reqs == 1..Len(reqs)

IsAnalyze(r) == r.path = PathAnalyze /\ r.method = "POST"
IsChat(r)    == r.path = PathChat /\ r.method = "POST"
IsHistory(r) == StartsWith(r.path, PathHistoryPre) /\ r.method = "GET"

Completed(r) == r.pc = "done"
\* response.ok
Succeeded(r) == Completed(r) /\ r.resp.status >= 200 /\ r.resp.status < 300

\* the request carries JSON (any JSON value) as its body
HasJsonBody(r) == r.body.kind \in {"null", "scalar", "object"}

\* a JSON {error} envelope with the given status
IsErrorEnvelope(resp, status) ==
    resp.status = status /\ resp.ctype = "json" /\ resp.kind = "error" /\ resp.error # ""

\* the analysis history and chat transcript held for an actor name
HistoryOf(k) == IF k \in DOMAIN storage THEN storage[k].analysisHistory ELSE <<>>
ChatOf(k)    == IF k \in DOMAIN storage THEN storage[k].chatHistory ELSE <<>>

\* C1: two URLs deriving the same key are served by the same Site Actor, and a
\* GetHistory for that key issued after an Analyze completed successfully
\* returns a history containing that Analyze's report.
C1_SameActorSeesHistory ==
    /\ \A i, j \in Reqs :
         ( /\ reqs[i].origin = "router" /\ reqs[j].origin = "router"
           /\ IsAnalyze(reqs[i]) /\ IsAnalyze(reqs[j])
           /\ reqs[i].resolved /\ reqs[j].resolved
           /\ generateSiteId(reqs[i].body.siteUrl) = generateSiteId(reqs[j].body.siteUrl) )
         => reqs[i].name = reqs[j].name
    /\ \A i, j \in Reqs :
         ( /\ IsAnalyze(reqs[i]) /\ Succeeded(reqs[i])
           /\ IsHistory(reqs[j]) /\ Succeeded(reqs[j])
           /\ i \in reqs[j].after
           /\ reqs[j].name = generateSiteId(reqs[i].body.siteUrl) )
         => \E n \in 1..Len(reqs[j].resp.history) :
                reqs[j].resp.history[n].siteId = reqs[i].resp.siteId

\* C2: once every Analyze call has returned, the length of a key's analysis
\* history equals the number of Analyze calls on that key that returned success.
C2_HistoryCountsSuccesses ==
    (\A i \in Reqs : Completed(reqs[i]))
    => \A k \in DOMAIN storage :
         Len(HistoryOf(k)) =
           Cardinality({ i \in Reqs : IsAnalyze(reqs[i]) /\ reqs[i].name = k
                                      /\ Succeeded(reqs[i]) })

\* C3: when an Analyze and a Chat on the same key ran concurrently and both
\* completed successfully, the history holds exactly the Analyze's report and the
\* transcript exactly the Chat's user turn followed by its assistant turn.
C3_ConcurrentAnalyzeAndChat ==
    \A i, j \in Reqs :
      ( /\ IsAnalyze(reqs[i]) /\ Succeeded(reqs[i])
        /\ IsChat(reqs[j]) /\ Succeeded(reqs[j])
        /\ reqs[i].name = reqs[j].name
        /\ i \notin reqs[j].after /\ j \notin reqs[i].after
        /\ \A m \in Reqs \ {i, j} : reqs[m].name # reqs[i].name )
      => /\ Len(HistoryOf(reqs[i].name)) = 1
         /\ Len(ChatOf(reqs[j].name)) = 2
         /\ ChatOf(reqs[j].name)[1] = [role |-> "user", content |-> reqs[j].body.message]
         /\ ChatOf(reqs[j].name)[2].role = "assistant"

\* C4: the user turn of a Chat is persisted before its answer is produced: the
\* transcript never holds an assistant turn that does not directly follow a user
\* turn, and every Chat whose answer exists has its user turn in the transcript.
C4_UserTurnBeforeAnswer ==
    /\ \A k \in DOMAIN storage : \A n \in 1..Len(ChatOf(k)) :
         ChatOf(k)[n].role = "assistant" => (n > 1 /\ ChatOf(k)[n - 1].role = "user")
    /\ \A i \in Reqs :
         (IsChat(reqs[i]) /\ reqs[i].actorResp.kind = "chat")
         => \E n \in 1..Len(ChatOf(reqs[i].name)) :
              ChatOf(reqs[i].name)[n] = [role |-> "user", content |-> reqs[i].body.message]

\* C5: a POST /api/analyze with a non-empty siteUrl is forwarded to the actor for
\* deriveKey(siteUrl) and the caller gets that actor's success response.
C5_AnalyzeHandedOff ==
    \A i \in Reqs :
      ( /\ reqs[i].origin = "router" /\ IsAnalyze(reqs[i]) /\ Completed(reqs[i])
        /\ Truthy(Field(reqs[i].body, "siteUrl")) )
      => /\ reqs[i].contacted
         /\ reqs[i].name = generateSiteId(reqs[i].body.siteUrl)
         /\ reqs[i].resp = reqs[i].actorResp
         /\ reqs[i].resp.status = 200

\* C6: whenever the inference call fails (network error or unparsable reply) the
\* Insight Generator fails too: it never returns text as if it had succeeded.
C6_InferenceFailureSurfaces ==
    \A n \in 1..Len(agentCalls) :
      InferenceFailed(agentCalls[n].ai) => agentCalls[n].result.threw

\* C7: whenever a fetch made by the Analyzer fails, analyzeSite fails with the
\* underlying message: it never returns a completed report.
C7_FetchFailureFailsAnalysis ==
    \A n \in 1..Len(analyzerCalls) :
      LET c == analyzerCalls[n]
      IN "rejects" \in { c.f.caching, c.f.assets, c.f.cloudflare }
         => c.result.threw /\ c.result.error # ""

\* C8 as stated: every POST /api/analyze whose JSON body lacks a non-empty
\* siteUrl is answered 400 with a JSON {error} envelope, and no Site Actor is
\* resolved or contacted.
C8_MissingSiteUrlIs400 ==
    \A i \in Reqs :
      ( /\ reqs[i].origin = "router" /\ IsAnalyze(reqs[i]) /\ HasJsonBody(reqs[i])
        /\ ~Truthy(Field(reqs[i].body, "siteUrl")) )
      => /\ ~reqs[i].resolved /\ ~reqs[i].contacted
         /\ Completed(reqs[i]) => IsErrorEnvelope(reqs[i].resp, 400)

\* C8 amended: a POST /api/analyze whose JSON body is not null and lacks a
\* non-empty siteUrl is answered 400 with a JSON {error} envelope; a JSON null
\* body is answered 500 with a JSON {error} envelope; in both cases no Site Actor
\* is resolved or contacted.
C8_MissingSiteUrlIs400UnlessNull ==
    \A i \in Reqs :
      ( /\ reqs[i].origin = "router" /\ IsAnalyze(reqs[i]) /\ HasJsonBody(reqs[i])
        /\ ~Truthy(Field(reqs[i].body, "siteUrl")) )
      => /\ ~reqs[i].resolved /\ ~reqs[i].contacted
         /\ Completed(reqs[i]) =>
              IF reqs[i].body.kind = "null"
              THEN IsErrorEnvelope(reqs[i].resp, 500)
              ELSE reqs[i].resp = JsonError(400, "site url required")

\* C8 witness: an analyze request with an object body without siteUrl, one with
\* siteUrl "" and one with a null body have all been answered.
C8_Witness ==
    /\ \E i \in Reqs : /\ reqs[i].origin = "router" /\ IsAnalyze(reqs[i])
                       /\ reqs[i].body \in {EmptyObject, AnalyzeObject(<<>>)}
                       /\ Completed(reqs[i]) /\ reqs[i].resp.status = 400
    /\ \E i \in Reqs : /\ reqs[i].origin = "router" /\ IsAnalyze(reqs[i])
                       /\ reqs[i].body = NullBody
                       /\ Completed(reqs[i]) /\ reqs[i].resp.status = 500

\* C9 as stated: every POST /api/chat whose JSON body lacks a non-empty siteId or
\* a non-empty message is answered 400 {error: "site id and message required"}
\* and contacts no Site Actor.
C9_MissingChatFieldIs400 ==
    \A i \in Reqs :
      ( /\ reqs[i].origin = "router" /\ IsChat(reqs[i]) /\ HasJsonBody(reqs[i])
        /\ (~Truthy(Field(reqs[i].body, "siteId")) \/ ~Truthy(Field(reqs[i].body, "message"))) )
      => /\ ~reqs[i].resolved /\ ~reqs[i].contacted
         /\ Completed(reqs[i]) =>
              reqs[i].resp = JsonError(400, "site id and message required")

\* C9 amended: a POST /api/chat whose JSON body is not null and lacks a non-empty
\* siteId or a non-empty message is answered 400 {error: "site id and message
\* required"}; a JSON null body is answered 500 with a JSON {error} envelope; in
\* both cases no Site Actor is contacted.
C9_MissingChatFieldIs400UnlessNull ==
    \A i \in Reqs :
      ( /\ reqs[i].origin = "router" /\ IsChat(reqs[i]) /\ HasJsonBody(reqs[i])
        /\ (~Truthy(Field(reqs[i].body, "siteId")) \/ ~Truthy(Field(reqs[i].body, "message"))) )
      => /\ ~reqs[i].resolved /\ ~reqs[i].contacted
         /\ Completed(reqs[i]) =>
              IF reqs[i].body.kind = "null"
              THEN IsErrorEnvelope(reqs[i].resp, 500)
              ELSE reqs[i].resp = JsonError(400, "site id and message required")

\* C9 witness: a chat request with siteId "ex.io/P" and message "" has been
\* answered 400, and one with a message but an empty siteId as well.
C9_Witness ==
    /\ \E i \in Reqs : /\ reqs[i].origin = "router" /\ IsChat(reqs[i])
                       /\ reqs[i].body = ChatObject(KeyPage, <<>>)
                       /\ Completed(reqs[i]) /\ reqs[i].resp.status = 400
    /\ \E i \in Reqs : /\ reqs[i].origin = "router" /\ IsChat(reqs[i])
                       /\ reqs[i].body = ChatObject(<<>>, MsgHi)
                       /\ Completed(reqs[i]) /\ reqs[i].resp.status = 400

\* C10: an exception raised in the Router while it reads a request body or while
\* the forwarded actor call is in flight becomes a 500 JSON {error: message}
\* response, and no request makes the Router's fetch handler throw.
C10_RouterConvertsExceptions ==
    \A i \in Reqs :
      reqs[i].origin = "router"
      => /\ reqs[i].pc # "thrown"
         /\ reqs[i].raised # ""
              => Completed(reqs[i]) /\ reqs[i].resp = JsonError(500, reqs[i].raised)

\* C10 witness: a malformed body, a null body and a failed forwarded call have
\* each raised an exception in the Router and been answered.
C10_Witness ==
    \E i, j \in Reqs :
      /\ reqs[i].origin = "router" /\ reqs[j].origin = "router"
      /\ reqs[i].raised \in {ErrBadJson, ErrNullBody} /\ Completed(reqs[i])
      /\ reqs[j].raised \in {ErrActorUnavailable, ErrUsedRequest} /\ Completed(reqs[j])

\* the site id a caller put behind /api/history/ in the request path
SuppliedHistoryId(r) == Drop(r.path, Len(PathHistoryPre))

\* C11: Chat and GetHistory address the actor named by the site id the caller
\* supplied, verbatim, and are delivered to it: a Chat with a site id and a
\* message, and a GET /api/history/{site id}, reach the actor of exactly that name
\* unless the platform rejects the forwarded call.
C11_SiteIdAddressesVerbatim ==
    \A i \in Reqs :
      reqs[i].origin = "router"
      => /\ ( /\ IsChat(reqs[i]) /\ Completed(reqs[i])
              /\ Truthy(Field(reqs[i].body, "siteId"))
              /\ Truthy(Field(reqs[i].body, "message"))
              /\ reqs[i].raised # ErrActorUnavailable )
            => reqs[i].contacted /\ reqs[i].name = reqs[i].body.siteId
         /\ ( /\ IsHistory(reqs[i]) /\ Completed(reqs[i])
              /\ SuppliedHistoryId(reqs[i]) # <<>>
              /\ reqs[i].raised # ErrActorUnavailable )
            => reqs[i].contacted /\ reqs[i].name = SuppliedHistoryId(reqs[i])

KeyCalls == 1..Len(keyCalls)

\* new URL(input) succeeds
IsAbsoluteUrl(input) == ParseURL(input).ok

\* u with a "/" appended, with "www." put in front of its host, with http and
\* https exchanged (u itself where u is not an http or https URL)
AddSlash(u) == u \o <<"/">>
WithWww(u) ==
    IF StartsWith(u, S_http) THEN S_http \o S_www \o Drop(u, Len(S_http))
    ELSE IF StartsWith(u, S_https) THEN S_https \o S_www \o Drop(u, Len(S_https))
    ELSE u
OtherScheme(u) ==
    IF StartsWith(u, S_http) THEN S_https \o Drop(u, Len(S_http))
    ELSE IF StartsWith(u, S_https) THEN S_http \o Drop(u, Len(S_https))
    ELSE u

\* C12: two absolute URLs that differ only in scheme (http vs https), in the
\* presence of one leading "www." on the host, or in one trailing slash derive
\* the same key.
C12_VariantsDeriveSameKey ==
    \A m, n \in KeyCalls :
      ( /\ IsAbsoluteUrl(keyCalls[m].input) /\ IsAbsoluteUrl(keyCalls[n].input)
        /\ keyCalls[n].input \in { OtherScheme(keyCalls[m].input),
                                   WithWww(keyCalls[m].input),
                                   AddSlash(keyCalls[m].input) } )
      => keyCalls[m].key = keyCalls[n].key

\* C13: key derivation is idempotent on its own outputs: for every input that
\* parses as an absolute URL, whatever its scheme, the key of the key is the key.
C13_DeriveKeyIdempotent ==
    \A n \in KeyCalls :
      IsAbsoluteUrl(keyCalls[n].input) => keyCalls[n].rekey = keyCalls[n].key

\* C14: key derivation is total: it raises for no input, and an input that does
\* not parse as an absolute URL is returned unchanged as its own key.
C14_DeriveKeyTotal ==
    \A n \in KeyCalls :
      /\ ~keyCalls[n].threw
      /\ ~IsAbsoluteUrl(keyCalls[n].input) => keyCalls[n].key = keyCalls[n].input

\* C14 witness: the key of an input without a scheme and the key of an absolute
\* URL have both been derived.
C14_Witness ==
    \E m, n \in KeyCalls :
      /\ keyCalls[m].input = UrlBare /\ keyCalls[m].key = UrlBare
      /\ IsAbsoluteUrl(keyCalls[n].input) /\ keyCalls[n].key # keyCalls[n].input

\* lowercase(host) without one leading "www.", then the path, without one
\* trailing "/"
HostThenPath(input) ==
    LET urlObj == ParseURL(input)
    IN StripTrailingSlash(StripLeadingWww(ToLower(urlObj.hostname)) \o urlObj.pathname)

\* C15: for every input that parses as an absolute URL the derived key is
\* lowercase(host) with one leading "www." removed, followed by the path with its
\* case preserved, with one trailing "/" removed; and the response to an Analyze
\* of such a URL carries that key as its siteId.
C15_KeyIsHostThenPath ==
    /\ \A n \in KeyCalls :
         IsAbsoluteUrl(keyCalls[n].input)
         => keyCalls[n].key = HostThenPath(keyCalls[n].input)
    /\ \A i \in Reqs :
         ( /\ IsAnalyze(reqs[i]) /\ Completed(reqs[i])
           /\ reqs[i].body.kind = "object" /\ "siteUrl" \in reqs[i].body.has
           /\ IsAbsoluteUrl(reqs[i].body.siteUrl)
           /\ reqs[i].raised # ErrActorUnavailable )
         => reqs[i].resp.siteId = HostThenPath(reqs[i].body.siteUrl)

AgentCalls == 1..Len(agentCalls)

\* C16: the chat history in the prompt built for the Insight Generator holds at
\* most 5 turns: the whole transcript when it has at most 5 turns, otherwise
\* exactly its 5 most recent turns in their original order; the transcript handed
\* in is not shortened.
C16_PromptHoldsLastFiveTurns ==
    \A n \in AgentCalls :
      agentCalls[n].op = "chat"
      => LET history == agentCalls[n].history
             turns   == agentCalls[n].result.prompt.turns
             skipped == Len(history) - Len(turns)
         IN /\ Len(turns) <= 5
            /\ Len(turns) = IF Len(history) > 5 THEN 5 ELSE Len(history)
            /\ \A m \in 1..Len(turns) : turns[m] = history[skipped + m]
            /\ agentCalls[n].result.chatHistory = history

\* C16 witness: a chat prompt was built from a transcript of seven turns and
\* holds turns 3 to 7.
C16_Witness ==
    \E n \in AgentCalls :
      /\ agentCalls[n].op = "chat"
      /\ Len(agentCalls[n].history) > 5
      /\ agentCalls[n].result.prompt.turns = SubSeq(SevenTurns, 3, 7)

\* an Analyze request addressed to the actor named k arrived before request j
AnalyzedBefore(k, j) ==
    \E i \in reqs[j].after : IsAnalyze(reqs[i]) /\ reqs[i].name = k

\* C17: a Chat with a site id and a message, addressed to a key for which no
\* Analyze has ever run, completes with a success response unless the platform
\* rejects the forwarded call; and the Insight Generator, given an absent
\* analysis context, builds its prompt without raising.
C17_ChatWithoutAnalysisSucceeds ==
    /\ \A j \in Reqs :
         ( /\ IsChat(reqs[j]) /\ Completed(reqs[j])
           /\ Truthy(Field(reqs[j].body, "siteId"))
           /\ Truthy(Field(reqs[j].body, "message"))
           /\ ~AnalyzedBefore(reqs[j].body.siteId, j)
           /\ reqs[j].raised # ErrActorUnavailable )
         => Succeeded(reqs[j])
    /\ \A n \in AgentCalls :
         (agentCalls[n].op = "chat" /\ agentCalls[n].context = "absent")
         => ~agentCalls[n].result.threw /\ agentCalls[n].result.prompt.context = ""

\* an Analyze addressed to the actor named k has returned success
AnalyzeSucceededOn(k) ==
    \E i \in Reqs : IsAnalyze(reqs[i]) /\ reqs[i].name = k /\ Succeeded(reqs[i])

\* C18: a GetHistory on a key for which no Analyze has ever succeeded is
\* answered with a success response whose history is the empty array, never with
\* an error response, unless the platform rejects the forwarded call.
C18_HistoryOfUnknownKeyIsEmpty ==
    \A j \in Reqs :
      ( /\ IsHistory(reqs[j]) /\ reqs[j].resolved /\ Completed(reqs[j])
        /\ ~AnalyzeSucceededOn(reqs[j].name)
        /\ reqs[j].raised # ErrActorUnavailable )
      => /\ Succeeded(reqs[j])
         /\ reqs[j].resp.kind = "history"
         /\ reqs[j].resp.history = <<>>

\* C18 witness: a GET /api/history/ex.io/P through the Router has been answered
\* by the actor while no Analyze on "ex.io/P" has succeeded.
C18_Witness ==
    \E j \in Reqs :
      /\ reqs[j].origin = "router" /\ IsHistory(reqs[j]) /\ reqs[j].name = KeyPage
      /\ reqs[j].contacted /\ Completed(reqs[j])
      /\ ~AnalyzeSucceededOn(KeyPage)

\* C20: a Chat request that reaches a Site Actor with an absent or empty message
\* is answered by the actor with a 400 JSON {error} response.
C20_ActorValidatesChat ==
    \A i \in Reqs :
      ( /\ IsChat(reqs[i]) /\ reqs[i].contacted
        /\ reqs[i].body.kind = "object"
        /\ ~Truthy(Field(reqs[i].body, "message"))
        /\ reqs[i].actorResp # NoResponse )
      => IsErrorEnvelope(reqs[i].actorResp, 400)

\* C21: a GET /api/history/ whose site id segment is absent or empty is answered
\* by the Router with 400 and a JSON {error} envelope, and no Site Actor is
\* resolved or contacted.
C21_EmptyHistoryIdIs400 ==
    \A i \in Reqs :
      ( /\ reqs[i].origin = "router" /\ IsHistory(reqs[i])
        /\ SuppliedHistoryId(reqs[i]) = <<>> )
      => /\ ~reqs[i].resolved /\ ~reqs[i].contacted
         /\ Completed(reqs[i])
         /\ reqs[i].resp = JsonError(400, "site id required")
         /\ IsErrorEnvelope(reqs[i].resp, 400)

\* C21 witness: a GET /api/history/ has been answered by the Router.
C21_Witness ==
    \E i \in Reqs :
      /\ reqs[i].origin = "router" /\ reqs[i].method = "GET"
      /\ reqs[i].path = PathHistoryPre
      /\ Completed(reqs[i]) /\ reqs[i].resp.status = 400

\* the request is one of POST /api/analyze, POST /api/chat, GET /api/history/...
IsApiRoute(r) == IsAnalyze(r) \/ IsChat(r) \/ IsHistory(r)

\* C22: routing under the API prefix is exact: a request whose path starts with
\* "/api/" and which is none of POST /api/analyze, POST /api/chat and
\* GET /api/history/... is answered 404, a request whose path does not start with
\* "/api/" gets the fixed informational response, and neither reaches a Site
\* Actor.
C22_RoutingIsExact ==
    \A i \in Reqs :
      (reqs[i].origin = "router" /\ ~IsApiRoute(reqs[i]))
      => /\ ~reqs[i].resolved /\ ~reqs[i].contacted
         /\ Completed(reqs[i])
         /\ IF StartsWith(reqs[i].path, PathApi)
            THEN reqs[i].resp = NotFound /\ reqs[i].resp.status = 404
            ELSE /\ reqs[i].resp.status = 200 /\ reqs[i].resp.kind = "info"
                 /\ reqs[i].resp.text = "frontend should be served via pages"

\* C22 witness: a GET /api/analyze and a GET /api have both been answered.
C22_Witness ==
    \E i, j \in Reqs :
      /\ reqs[i].origin = "router" /\ reqs[i].method = "GET"
      /\ reqs[i].path = PathAnalyze /\ reqs[i].resp.status = 404
      /\ reqs[j].origin = "router" /\ reqs[j].path = PathApiBare
      /\ reqs[j].resp.kind = "info"

\* C23: every failure arising inside a Site Actor operation is caught inside the
\* actor and answered with a JSON {error} response of status 4xx or 5xx: no
\* request leaves the actor's fetch handler thrown.
C23_ActorCatchesFailures ==
    \A i \in Reqs :
      reqs[i].contacted
      => /\ reqs[i].pc # "do_thrown"
         /\ reqs[i].doRaised # ""
              => /\ reqs[i].actorResp = JsonError(500, reqs[i].doRaised)
                 /\ reqs[i].actorResp.status >= 400 /\ reqs[i].actorResp.status < 600

\* C23 witness: an Analyze with a malformed body and a Chat with a null body
\* have both raised inside the actor and been answered by it.
C23_Witness ==
    \E i, j \in Reqs :
      /\ IsAnalyze(reqs[i]) /\ reqs[i].contacted /\ reqs[i].doRaised = ErrBadJson
      /\ reqs[i].actorResp.status = 500
      /\ IsChat(reqs[j]) /\ reqs[j].contacted /\ reqs[j].doRaised = ErrNullBody
      /\ reqs[j].actorResp.status = 500

\* C24: every collaborator call returns, also when its fetch never completes: a
\* hung Analyzer fetch or inference call is turned into a failure instead of
\* being awaited forever.
C24_HungCollaboratorReturns ==
    \A n \in 1..MaxCollabCalls :
      (Len(collabCalls) >= n /\ collabCalls[n].state = "awaiting")
      ~> (Len(collabCalls) >= n /\ collabCalls[n].state = "returned")

\* no request addressed to the actor named k takes part in the step
Untouched(k) == \A i \in Reqs : reqs[i].name = k => reqs'[i] = reqs[i]

\* two Router requests carry the same method, path and body
SameInput(r1, r2) ==
    r1.method = r2.method /\ r1.path = r2.path /\ r1.body = r2.body

C26_ActorKeyIsRouterKey ==
    \A i \in Reqs :
      ( /\ reqs[i].origin = "router" /\ IsAnalyze(reqs[i])
        /\ reqs[i].resolved /\ Completed(reqs[i])
        /\ reqs[i].raised # ErrActorUnavailable )
      => /\ reqs[i].contacted
         /\ reqs[i].resp.siteId = reqs[i].name

\* C27: the Router's and the actor's dispatch tables agree: every request the
\* Router resolves an actor for and forwards matches one of the actor's three
\* routes, so the actor never answers a forwarded request from its own 404
\* branch.
C27_DispatchTablesAgree ==
    \A i \in Reqs :
      (reqs[i].origin = "router" /\ reqs[i].resolved)
      => /\ DO_fetch(reqs[i]).actorResp # NotFound
         /\ reqs[i].contacted => reqs[i].actorResp # NotFound

\* C27 witness: the Router has resolved an actor for an Analyze, and a
\* GET /api/history/ex.io/P it forwarded has been answered by the actor.
C27_Witness ==
    \E i, j \in Reqs :
      /\ reqs[i].origin = "router" /\ IsAnalyze(reqs[i]) /\ reqs[i].resolved
      /\ reqs[j].origin = "router" /\ IsHistory(reqs[j]) /\ reqs[j].contacted
      /\ reqs[j].actorResp.status = 200

SanitizeCalls == 1..Len(sanitizeCalls)

\* C28: for every string input sanitizeInput returns a string of at most 1000
\* characters without leading or trailing whitespace, and sanitizing that result
\* again returns it unchanged.
C28_SanitizedIsTrimmedAndStable ==
    \A n \in SanitizeCalls :
      LET result == sanitizeCalls[n].result
      IN /\ Len(result) <= 1000
         /\ Len(result) > 0
              => result[1] \notin WhitespaceChars /\ result[Len(result)] \notin WhitespaceChars
         /\ sanitizeCalls[n].again = result

UiTasks == 1..Len(ui.tasks)

\* the requests the page sends in the step
SentInStep == { ui'.sent[n] : n \in (Len(ui.sent) + 1)..Len(ui'.sent) }

\* C29: the page sends a chat request only while currentSiteId is not null;
\* currentSiteId changes only when an analyze request gets an ok reply, so a
\* failed analysis never changes it; and no chat request is sent before the
\* first analysis has succeeded.
C29_ChatOnlyAfterAnalysis ==
    /\ [][\A m \in SentInStep : m.route = "chat" => ui.currentSiteId # JsNull]_vars
    /\ [][ui'.currentSiteId # ui.currentSiteId
           => \E t \in UiTasks :
                /\ ui.tasks[t].op = "analyze" /\ ui.tasks[t].pc = "await_fetch"
                /\ ReplyOk(ui'.tasks[t].reply)
                /\ ui'.currentSiteId = ui'.tasks[t].reply.siteId]_vars
    /\ []((\E n \in 1..Len(ui.sent) : ui.sent[n].route = "chat")
           => \E t \in UiTasks : ui.tasks[t].op = "analyze" /\ ReplyOk(ui.tasks[t].reply))

\* C29 witness: one analysis has failed, one has succeeded, a chat request has
\* been sent with the site id of the successful one, and currentSiteId holds it.
C29_Witness ==
    /\ \E t \in UiTasks : ui.tasks[t].op = "analyze" /\ ui.tasks[t].reply.kind = "error"
    /\ \E t \in UiTasks : ui.tasks[t].op = "analyze" /\ ReplyOk(ui.tasks[t].reply)
    /\ \E n \in 1..Len(ui.sent) :
         ui.sent[n].route = "chat" /\ ui.sent[n].siteId = JsString(KeyPage)
    /\ ui.currentSiteId = JsString(KeyPage)

\* the pane's children when it shows exactly the items of one history response
RenderedHistory(history) ==
    IF Len(history) = 0
    THEN << PaneNotice >>
    ELSE [n \in 1..Len(history) |-> PaneItem(history[n])]

\* C30: after every completed loadHistory the history pane shows exactly the
\* items of the history response just received, or the single "no history yet"
\* notice when it is empty: nothing of an earlier load is left in the pane.
C30_PaneShowsLatestHistory ==
    [][\A t \in UiTasks :
         ( /\ ui.tasks[t].pc = "await_history" /\ ui'.tasks[t].pc = "done"
           /\ ReplyOk(ui'.tasks[t].loaded) )
         => ui'.historyContent = RenderedHistory(ui'.tasks[t].loaded.history)]_vars

====
